---- MODULE Spec2Model ----
(***************************************************************************)
(* Topiary Park Living: the browser data renderer (direct-access variant   *)
(* src/src/js/app.js and proxied variant src/unnamed/part_000), the        *)
(* structured-data publisher (updateSchema / injectJsonLd) and the         *)
(* serverless proxy gateway (handler in src/src/js/app.js).                *)
(*                                                                         *)
(* JavaScript values are modelled as records [t, n, s]: t is the type tag  *)
(* ("undefined", "null", "num", "nan", "str"), n the value of a number and *)
(* s the characters of a string (a sequence of one-character strings).     *)
(* Numbers are non-negative integers.                                      *)
(***************************************************************************)
EXTENDS Integers, Sequences, FiniteSets, TLC

VARIABLES
    \* ---- the page (data renderer and structured-data publisher)
    variant,            \* "direct" (app.js) or "proxy" (part_000)
    envKey,             \* process.env.AIRTABLE_API_KEY is set (app.js:7)
    domLoaded,          \* the DOMContentLoaded listener has run
    pc,                 \* per kind: "idle", "awaiting" (at await fetch), "done"
    container,          \* per kind: the container's innerHTML
    lastResp,           \* per kind: what the last settled request delivered
    globalPricingData,  \* app.js:249
    globalFaqData,      \* app.js:250
    offerDoc,           \* <script id="dynamic-offer-schema">
    faqDoc,             \* <script id="dynamic-faq-schema">
    started,            \* per kind: fetch-and-render operations started
    requests,           \* per kind: network requests issued
    refreshes,          \* operations started again after the page load
    sentAuth,           \* the credentials the page has sent in requests
    mapContainer,       \* the map container's innerHTML
    \* ---- direct calls of updateSchema (the publisher on its own)
    calls,              \* which arguments each call so far provided
    argP, argF,         \* the last provided pricing / FAQ argument
    \* ---- the proxy gateway
    gwPc,               \* "idle", "awaiting" (at await Promise.all), "responded"
    gwMethod,           \* request.method
    gwKey,              \* process.env.AIRTABLE_API_KEY is set (app.js:343)
    up,                 \* per kind: the upstream fetch of this request
    gwResp,             \* the response sent
    gwFetches,          \* upstream fetches issued for this request
    gwHandled,          \* requests handled so far
    \* ---- one pricing record through normalisation and rendering
    priceIn, priceOut, cellOut, inSummary, pricePc

pageVars == <<variant, envKey, domLoaded, pc, container, lastResp,
              globalPricingData, globalFaqData, offerDoc, faqDoc,
              started, requests, refreshes, sentAuth, mapContainer>>
callVars == <<calls, argP, argF>>
gwVars == <<gwPc, gwMethod, gwKey, up, gwResp, gwFetches, gwHandled>>
priceVars == <<priceIn, priceOut, cellOut, inSummary, pricePc>>
vars == <<pageVars, callVars, gwVars, priceVars>>
notPage == <<callVars, gwVars, priceVars>>
pageRest == <<variant, envKey, domLoaded, pc, container, lastResp, started,
              requests, refreshes, sentAuth, mapContainer>>

(***************************************************************************)
(* Bounds.                                                                 *)
(***************************************************************************)
MaxRecords == 3     \* pricing records in one response
MaxFaq == 2         \* FAQ records in one response
MaxRefresh == 1     \* fetch-and-render operations started after page load
MaxRefreshRecords == 2  \* pricing records in one response, with refreshes
MaxRefreshFaq == 1  \* FAQ records in one response, with refreshes
MaxCalls == 2       \* direct calls of updateSchema
MaxStrLen == 6      \* characters of a price string
MaxRequests == 2    \* requests the gateway handles

Kinds == {"pricing", "faq"}

(***************************************************************************)
(* JavaScript values.                                                      *)
(***************************************************************************)
Undefined == [t |-> "undefined", n |-> 0, s |-> <<>>]
Null == [t |-> "null", n |-> 0, s |-> <<>>]
NaN == [t |-> "nan", n |-> 0, s |-> <<>>]
Num(x) == [t |-> "num", n |-> x, s |-> <<>>]
Str(cs) == [t |-> "str", n |-> 0, s |-> cs]

Digits == <<"0", "1", "2", "3", "4", "5", "6", "7", "8", "9">>
IsDigit(c) == \E i \in 1..10 : Digits[i] = c
DigitVal(c) == (CHOOSE i \in 1..10 : Digits[i] = c) - 1

\* The longest prefix of cs made of decimal digits.
RECURSIVE DigitPrefix(_)
DigitPrefix(cs) ==
    IF cs = <<>> \/ ~IsDigit(Head(cs)) THEN <<>>
    ELSE <<Head(cs)>> \o DigitPrefix(Tail(cs))

\* The number a sequence of decimal digits denotes.
RECURSIVE DigitsValue(_)
DigitsValue(ds) ==
    IF ds = <<>> THEN 0
    ELSE 10 * DigitsValue(SubSeq(ds, 1, Len(ds) - 1)) + DigitVal(ds[Len(ds)])

\* parseFloat: the number denoted by the longest numeric prefix, NaN when
\* the string does not start with one.
parseFloat(cs) ==
    LET pre == DigitPrefix(cs)
    IN  IF pre = <<>> THEN NaN ELSE Num(DigitsValue(pre))

\* rawPrice.replace(/[$,]/g, '')
StripDollarComma(cs) == SelectSeq(cs, LAMBDA c : c \notin {"$", ","})

\* ToNumber, as isNaN and Intl.NumberFormat.format apply it to their argument.
ToNumber(v) ==
    CASE v.t = "undefined" -> NaN
      [] v.t = "null" -> Num(0)
      [] v.t = "num" -> v
      [] v.t = "nan" -> NaN
      [] v.t = "str" ->
            IF v.s = <<>> THEN Num(0)
            ELSE IF \A i \in 1..Len(v.s) : IsDigit(v.s[i])
                 THEN Num(DigitsValue(v.s))
                 ELSE NaN

isNaN(v) == ToNumber(v).t = "nan"

\* The truthiness of a value in a condition.
Truthy(v) ==
    CASE v.t = "num" -> v.n # 0
      [] v.t = "str" -> v.s # <<>>
      [] OTHER -> FALSE

\* The decimal digits of a number, most significant first.
RECURSIVE NumDigits(_)
NumDigits(x) ==
    IF x < 10 THEN <<Digits[x + 1]>>
    ELSE NumDigits(x \div 10) \o <<Digits[(x % 10) + 1]>>

\* en-US grouping: a comma before every group of three digits.
RECURSIVE GroupThousands(_)
GroupThousands(ds) ==
    IF Len(ds) <= 3 THEN ds
    ELSE GroupThousands(SubSeq(ds, 1, Len(ds) - 3))
            \o <<",">> \o SubSeq(ds, Len(ds) - 2, Len(ds))

\* Intl.NumberFormat('en-US', currency USD, no fraction digits).format(amount)
formatCurrency(amount) ==
    LET x == ToNumber(amount)
    IN  IF x.t = "nan" THEN <<"$", "NaN">>
        ELSE <<"$">> \o GroupThousands(NumDigits(x.n))

CallForPricing == <<"Call for pricing">>

\* fields['Current Price'] ? formatCurrency(fields['Current Price'])
\*                         : 'Call for pricing'
PriceCell(price) ==
    IF Truthy(price) THEN formatCurrency(price) ELSE CallForPricing

\* The price a record contributes to pricingData (records.map callback).
NormalizePrice(rawPrice) ==
    IF rawPrice.t = "str" THEN parseFloat(StripDollarComma(rawPrice.s))
    ELSE rawPrice

\* .filter(item => !isNaN(item.price) && item.price !== null)
KeepPrice(price) == ~isNaN(price) /\ price.t # "null"


(***************************************************************************)
(* Structured-data publisher: updateSchema and injectJsonLd.               *)
(* An argument of updateSchema is [present, list]: null is present = FALSE *)
(* (an array, even an empty one, is truthy).  A head document is           *)
(* [present, content].  The publisher's state is the record                *)
(* [gp, gf, od, fd]: the two cached lists and the two documents.           *)
(***************************************************************************)
Absent == [present |-> FALSE, list |-> <<>>]
Provided(l) == [present |-> TRUE, list |-> l]

\* Math.min(...prices) of a non-empty list: NaN as soon as one argument is.
RECURSIVE MathMin(_)
MathMin(vs) ==
    LET h == ToNumber(Head(vs))
    IN  IF Len(vs) = 1 THEN h
        ELSE LET r == MathMin(Tail(vs))
             IN  IF h.t = "nan" \/ r.t = "nan" THEN NaN
                 ELSE IF h.n <= r.n THEN h ELSE r

\* Math.max(...prices) of a non-empty list.
RECURSIVE MathMax(_)
MathMax(vs) ==
    LET h == ToNumber(Head(vs))
    IN  IF Len(vs) = 1 THEN h
        ELSE LET r == MathMax(Tail(vs))
             IN  IF h.t = "nan" \/ r.t = "nan" THEN NaN
                 ELSE IF h.n >= r.n THEN h ELSE r

\* JSON.stringify of a number: NaN is written as null.
JsonNumber(v) == IF v.t = "nan" THEN Null ELSE v

NoOffer ==
    [type |-> "", priceCurrency |-> "", lowPrice |-> Undefined,
     highPrice |-> Undefined, offerCount |-> 0, availability |-> ""]

\* The offerSchema object, as serialised into the document.
OfferSchema(pricingData) ==
    LET prices == [i \in 1..Len(pricingData) |-> pricingData[i].price]
    IN  [type |-> "Offer", priceCurrency |-> "USD",
         lowPrice |-> JsonNumber(MathMin(prices)),
         highPrice |-> JsonNumber(MathMax(prices)),
         offerCount |-> Len(pricingData),
         availability |-> "https://schema.org/InStock"]

NoFaqPage == [type |-> "", mainEntity |-> <<>>]

\* The faqSchema object, as serialised into the document.
FaqSchema(faqData) ==
    [type |-> "FAQPage",
     mainEntity |-> [i \in 1..Len(faqData) |->
                        [type |-> "Question", name |-> faqData[i].question,
                         text |-> faqData[i].answer]]]

\* injectJsonLd: create the script element when there is none, then
\* overwrite its text.
injectJsonLd(script, schemaData) == [present |-> TRUE, content |-> schemaData]

\* updateSchema with the FAQ document injected under the Offer document's
\* script id.
updateSchemaOneSlot(S, newPricingData, newFaqData) ==
    LET gp == IF newPricingData.present THEN newPricingData.list ELSE S.gp
        gf == IF newFaqData.present THEN newFaqData.list ELSE S.gf
        od == IF Len(gp) > 0 THEN injectJsonLd(S.od, OfferSchema(gp))
              ELSE S.od
    IN  [gp |-> gp,
         gf |-> gf,
         od |-> IF Len(gf) > 0 THEN injectJsonLd(od, FaqSchema(gf)) ELSE od,
         fd |-> S.fd]

\* updateSchema with an absent argument emptying its cached list instead of
\* keeping it.
updateSchemaResetAbsent(S, newPricingData, newFaqData) ==
    LET gp == IF newPricingData.present THEN newPricingData.list ELSE <<>>
        gf == IF newFaqData.present THEN newFaqData.list ELSE <<>>
    IN  [gp |-> gp,
         gf |-> gf,
         od |-> IF Len(gp) > 0 THEN injectJsonLd(S.od, OfferSchema(gp))
                ELSE S.od,
         fd |-> IF Len(gf) > 0 THEN injectJsonLd(S.fd, FaqSchema(gf))
                ELSE S.fd]

\* updateSchema patching the cache incrementally: a provided list is
\* appended to the cached list instead of replacing it.
updateSchemaAppend(S, newPricingData, newFaqData) ==
    LET gp == IF newPricingData.present THEN S.gp \o newPricingData.list
              ELSE S.gp
        gf == IF newFaqData.present THEN S.gf \o newFaqData.list ELSE S.gf
    IN  [gp |-> gp,
         gf |-> gf,
         od |-> IF Len(gp) > 0 THEN injectJsonLd(S.od, OfferSchema(gp))
                ELSE S.od,
         fd |-> IF Len(gf) > 0 THEN injectJsonLd(S.fd, FaqSchema(gf))
                ELSE S.fd]

updateSchema(S, newPricingData, newFaqData) ==
    LET gp == IF newPricingData.present THEN newPricingData.list ELSE S.gp
        gf == IF newFaqData.present THEN newFaqData.list ELSE S.gf
    IN  [gp |-> gp,
         gf |-> gf,
         od |-> IF Len(gp) > 0 THEN injectJsonLd(S.od, OfferSchema(gp))
                ELSE S.od,
         fd |-> IF Len(gf) > 0 THEN injectJsonLd(S.fd, FaqSchema(gf))
                ELSE S.fd]

Schema ==
    [gp |-> globalPricingData, gf |-> globalFaqData,
     od |-> offerDoc, fd |-> faqDoc]

SetSchema(S) ==
    /\ globalPricingData' = S.gp
    /\ globalFaqData' = S.gf
    /\ offerDoc' = S.od
    /\ faqDoc' = S.fd

EmptySchema ==
    [gp |-> <<>>, gf |-> <<>>,
     od |-> [present |-> FALSE, content |-> NoOffer],
     fd |-> [present |-> FALSE, content |-> NoFaqPage]]

(***************************************************************************)
(* Upstream records.  A record is [hasFields, ...fields]; a field that is  *)
(* absent is "" (a string field) or Undefined (the price).  hasFields is   *)
(* FALSE for a record without a fields object: reading a field of it       *)
(* throws a TypeError.                                                     *)
(***************************************************************************)
PricingRec(unitName, name, price, promotion) ==
    [hasFields |-> TRUE, unitName |-> unitName, name |-> name,
     price |-> price, promotion |-> promotion]

MalformedPricing ==
    [hasFields |-> FALSE, unitName |-> "", name |-> "",
     price |-> Undefined, promotion |-> ""]

PricingSamples ==
    { PricingRec("Studio", "", Num(1000), ""),
      PricingRec("", "One Bedroom", Num(1500), "Special"),
      PricingRec("", "", Num(1200), ""),
      PricingRec("Loft", "", Str(<<"a">>), ""),
      MalformedPricing }

FaqRec(question, answer) ==
    [hasFields |-> TRUE, question |-> question, answer |-> answer]

MalformedFaq == [hasFields |-> FALSE, question |-> "", answer |-> ""]

FaqSamples == { FaqRec("Pets?", "Yes"), FaqRec("", ""), MalformedFaq }

\* Every list of at most n elements of S.
ListsUpTo(S, n) == UNION { [1..k -> S] : k \in 0..n }

\* a || b on string fields
OrElse(a, b) == IF a # "" THEN a ELSE b

\* Reading a field of record.fields throws when the record has no fields.
Throws(records) == \E i \in 1..Len(records) : ~records[i].hasFields

(***************************************************************************)
(* Containers.  innerHTML is [kind, rows]: kind is "placeholder" (the      *)
(* static page), "loading", "error", "nodata" or "rendered"; rows are the  *)
(* table rows or the accordion panels.  The placeholder sizing classes,    *)
(* removed after a render, are presentation only and are left out.         *)
(***************************************************************************)
Placeholder == [kind |-> "placeholder", rows |-> <<>>]
showLoading == [kind |-> "loading", rows |-> <<>>]
showError == [kind |-> "error", rows |-> <<>>]
NoData == [kind |-> "nodata", rows |-> <<>>]

\* The table rows built by records.forEach.
PricingRows(records) ==
    [i \in 1..Len(records) |->
        [unitName |-> OrElse(records[i].unitName,
                             OrElse(records[i].name, "Apartment")),
         price |-> PriceCell(records[i].price),
         promotion |-> records[i].promotion]]

\* pricingData without the filter.
PricingDataUnfiltered(records) ==
    [i \in 1..Len(records) |-> [price |-> NormalizePrice(records[i].price)]]

\* records.map(...).filter(...): the list handed to updateSchema.
PricingData(records) ==
    SelectSeq([i \in 1..Len(records) |->
                  [price |-> NormalizePrice(records[i].price)]],
              LAMBDA item : KeepPrice(item.price))

\* The accordion panels built by records.forEach: panel i has id faq-(i-1),
\* its content starts hidden and its icon unrotated.
FaqPanels(records) ==
    [i \in 1..Len(records) |->
        [question |-> OrElse(records[i].question, "Question"),
         answer |-> OrElse(records[i].answer, "Answer"),
         hidden |-> TRUE, rotated |-> FALSE]]

\* records.map(...): the list handed to updateSchema.
FaqData(records) ==
    [i \in 1..Len(records) |->
        [question |-> OrElse(records[i].question, "Question"),
         answer |-> OrElse(records[i].answer, "Answer")]]

\* renderPricing that removes the Offer document when there are no records.
renderPricingClearing(S, hasRecords, records) ==
    IF ~hasRecords \/ Len(records) = 0
    THEN [threw |-> FALSE, cont |-> NoData,
          S |-> [S EXCEPT !.od = EmptySchema.od]]
    ELSE IF Throws(records)
    THEN [threw |-> TRUE, cont |-> showError, S |-> S]
    ELSE [threw |-> FALSE,
          cont |-> [kind |-> "rendered", rows |-> PricingRows(records)],
          S |-> updateSchema(S, Provided(PricingData(records)), Absent)]

\* renderPricing(records) from publisher state S: [threw, cont, S].  The
\* container is written only after the rows are built, so a throw leaves
\* it as it was (cont is then unused).
renderPricing(S, hasRecords, records) ==
    IF ~hasRecords \/ Len(records) = 0
    THEN [threw |-> FALSE, cont |-> NoData, S |-> S]
    ELSE IF Throws(records)
    THEN [threw |-> TRUE, cont |-> showError, S |-> S]
    ELSE [threw |-> FALSE,
          cont |-> [kind |-> "rendered", rows |-> PricingRows(records)],
          S |-> updateSchema(S, Provided(PricingData(records)), Absent)]

\* renderFAQ(records) from publisher state S: [threw, cont, S].
renderFAQ(S, hasRecords, records) ==
    IF ~hasRecords \/ Len(records) = 0
    THEN [threw |-> FALSE, cont |-> NoData, S |-> S]
    ELSE IF Throws(records)
    THEN [threw |-> TRUE, cont |-> showError, S |-> S]
    ELSE [threw |-> FALSE,
          cont |-> [kind |-> "rendered", rows |-> FaqPanels(records)],
          S |-> updateSchema(S, Absent, Provided(FaqData(records)))]


(***************************************************************************)
(* The page.  A fetch-and-render operation is suspended at its await of    *)
(* the network request (await response.json() follows it with no state     *)
(* change in between, and is part of the same step); a request that never  *)
(* settles leaves the operation there.  An operation is started again      *)
(* (a refresh) only once its previous run has finished.                    *)
(***************************************************************************)
Ops == {"pricing", "faq", "data"}
Targets == {"pricing", "faq", "rates"}

NoResp == [status |-> "none", hasRecords |-> FALSE, records |-> <<>>]
Failure(st) == [status |-> st, hasRecords |-> FALSE, records |-> <<>>]

\* What a request can settle with: the fetch rejects ("neterr"), the status
\* is not a success ("notok"), the body is not JSON ("badjson"), or the
\* body is an object, with or without a list of records.
Failures == { Failure("neterr"), Failure("notok"), Failure("badjson") }
Payloads(samples, n) ==
    { [status |-> "ok", hasRecords |-> FALSE, records |-> <<>>] } \cup
    { [status |-> "ok", hasRecords |-> TRUE, records |-> l] :
        l \in ListsUpTo(samples, n) }

\* app.js:7: the environment's key, or else the literal in the source.
AIRTABLE_ACCESS_TOKEN == IF envKey THEN "env" ELSE "fallback"

\* app.js:308
TokenUsable ==
    AIRTABLE_ACCESS_TOKEN # "" /\ AIRTABLE_ACCESS_TOKEN # "YOUR_KEY_HERE"

PageInit ==
    /\ variant \in {"direct", "proxy"}
    /\ envKey \in BOOLEAN
    /\ variant = "proxy" => envKey = FALSE
    /\ domLoaded = FALSE
    /\ pc = [k \in Kinds |-> "idle"]
    /\ container = [k \in Kinds |-> Placeholder]
    /\ lastResp = [k \in Kinds |-> NoResp]
    /\ globalPricingData = <<>>
    /\ globalFaqData = <<>>
    /\ offerDoc = EmptySchema.od
    /\ faqDoc = EmptySchema.fd
    /\ started = [o \in Ops |-> 0]
    /\ requests = [g \in Targets |-> 0]
    /\ refreshes = 0
    /\ sentAuth = {}
    /\ mapContainer = "placeholder"

\* fetchPricing / fetchFAQ up to the await: the loading indicator and one
\* request carrying the token.
StartDirect(ks) ==
    /\ container' = [k \in Kinds |-> IF k \in ks THEN showLoading
                                     ELSE container[k]]
    /\ pc' = [k \in Kinds |-> IF k \in ks THEN "awaiting" ELSE pc[k]]
    /\ started' = [o \in Ops |-> IF o \in ks THEN started[o] + 1
                                 ELSE started[o]]
    /\ requests' = [g \in Targets |-> IF g \in ks THEN requests[g] + 1
                                      ELSE requests[g]]
    /\ sentAuth' = sentAuth \cup {AIRTABLE_ACCESS_TOKEN}

\* fetchData up to the await: both loading indicators and one request to
\* /api/rates, which carries no credential.
StartData ==
    /\ container' = [k \in Kinds |-> showLoading]
    /\ pc' = [k \in Kinds |-> "awaiting"]
    /\ started' = [started EXCEPT !["data"] = @ + 1]
    /\ requests' = [requests EXCEPT !["rates"] = @ + 1]
    /\ sentAuth' = sentAuth

\* The DOMContentLoaded listener, initMap included.
DOMContentLoaded ==
    /\ ~domLoaded
    /\ domLoaded' = TRUE
    /\ IF variant = "direct"
       THEN IF TokenUsable
            THEN StartDirect(Kinds)
            ELSE /\ container' = [k \in Kinds |-> showError]
                 /\ UNCHANGED <<pc, started, requests, sentAuth>>
       ELSE StartData
    /\ mapContainer' = "iframe"
    /\ UNCHANGED <<variant, envKey, lastResp, globalPricingData,
                   globalFaqData, offerDoc, faqDoc, refreshes>>
    /\ UNCHANGED notPage

\* fetchPricing() or fetchFAQ() called again.
RefreshDirect(k) ==
    /\ variant = "direct"
    /\ domLoaded
    /\ pc[k] = "done"
    /\ refreshes < MaxRefresh
    /\ refreshes' = refreshes + 1
    /\ StartDirect({k})
    /\ UNCHANGED <<variant, envKey, domLoaded, lastResp, globalPricingData,
                   globalFaqData, offerDoc, faqDoc, mapContainer>>
    /\ UNCHANGED notPage

\* fetchData() called again.
RefreshData ==
    /\ variant = "proxy"
    /\ domLoaded
    /\ \A k \in Kinds : pc[k] = "done"
    /\ refreshes < MaxRefresh
    /\ refreshes' = refreshes + 1
    /\ StartData
    /\ UNCHANGED <<variant, envKey, domLoaded, lastResp, globalPricingData,
                   globalFaqData, offerDoc, faqDoc, mapContainer>>
    /\ UNCHANGED notPage

\* fetchPricing whose catch block writes the error message into both
\* containers.
FetchPricingSettleBoth(R) ==
    /\ variant = "direct"
    /\ pc["pricing"] = "awaiting"
    /\ \E r \in R :
        /\ LET res == IF r.status # "ok" \/ ~r.hasRecords
                      THEN [threw |-> TRUE, cont |-> showError, S |-> Schema]
                      ELSE renderPricing(Schema, TRUE, r.records)
           IN  /\ container' = IF res.threw THEN [k \in Kinds |-> showError]
                               ELSE [container EXCEPT !["pricing"] = res.cont]
               /\ SetSchema(res.S)
        /\ pc' = [pc EXCEPT !["pricing"] = "done"]
        /\ lastResp' = [lastResp EXCEPT !["pricing"] = r]
        /\ UNCHANGED <<variant, envKey, domLoaded, started, requests, refreshes,
                       sentAuth, mapContainer>>
        /\ UNCHANGED notPage

\* fetchPricing that issues its request again when the request fails.
FetchPricingSettleRetry(R) ==
    /\ variant = "direct"
    /\ pc["pricing"] = "awaiting"
    /\ \E r \in R :
        /\ IF r.status \in {"neterr", "notok"}
           THEN /\ requests' = [requests EXCEPT !["pricing"] = @ + 1]
                /\ UNCHANGED <<container, pc, lastResp, globalPricingData,
                               globalFaqData, offerDoc, faqDoc>>
           ELSE /\ LET res == IF r.status # "ok" \/ ~r.hasRecords
                              THEN [threw |-> TRUE, cont |-> showError,
                                    S |-> Schema]
                              ELSE renderPricing(Schema, TRUE, r.records)
                   IN  /\ container' = [container EXCEPT !["pricing"] =
                                          IF res.threw THEN showError
                                          ELSE res.cont]
                       /\ SetSchema(res.S)
                /\ pc' = [pc EXCEPT !["pricing"] = "done"]
                /\ lastResp' = [lastResp EXCEPT !["pricing"] = r]
                /\ UNCHANGED requests
        /\ UNCHANGED <<variant, envKey, domLoaded, started, refreshes,
                       sentAuth, mapContainer>>
        /\ UNCHANGED notPage

\* fetchPricing from the settling of its request, with one of the
\* responses R, to its end.
FetchPricingSettle(R) ==
    /\ variant = "direct"
    /\ pc["pricing"] = "awaiting"
    /\ \E r \in R :
        /\ LET res == IF r.status # "ok" \/ ~r.hasRecords
                      THEN [threw |-> TRUE, cont |-> showError, S |-> Schema]
                      ELSE renderPricing(Schema, TRUE, r.records)
           IN  /\ container' = [container EXCEPT !["pricing"] =
                                   IF res.threw THEN showError ELSE res.cont]
               /\ SetSchema(res.S)
        /\ pc' = [pc EXCEPT !["pricing"] = "done"]
        /\ lastResp' = [lastResp EXCEPT !["pricing"] = r]
        /\ UNCHANGED <<variant, envKey, domLoaded, started, requests, refreshes,
                       sentAuth, mapContainer>>
        /\ UNCHANGED notPage

\* fetchFAQ from the settling of its request, with one of the responses R,
\* to its end.
FetchFaqSettle(R) ==
    /\ variant = "direct"
    /\ pc["faq"] = "awaiting"
    /\ \E r \in R :
        /\ LET res == IF r.status # "ok" \/ ~r.hasRecords
                      THEN [threw |-> TRUE, cont |-> showError, S |-> Schema]
                      ELSE renderFAQ(Schema, TRUE, r.records)
           IN  /\ container' = [container EXCEPT !["faq"] =
                                   IF res.threw THEN showError ELSE res.cont]
               /\ SetSchema(res.S)
        /\ pc' = [pc EXCEPT !["faq"] = "done"]
        /\ lastResp' = [lastResp EXCEPT !["faq"] = r]
        /\ UNCHANGED <<variant, envKey, domLoaded, started, requests, refreshes,
                       sentAuth, mapContainer>>
        /\ UNCHANGED notPage

\* What fetchData does once its request has settled with status st and
\* body {pricing: p, faq: f}: [cont, S], cont the two containers.
fetchDataAfter(S, st, p, f) ==
    LET bothError == [k \in Kinds |-> showError]
        rp == renderPricing(S, p.hasRecords, p.records)
        rf == renderFAQ(rp.S, f.hasRecords, f.records)
    IN  IF st # "ok" THEN [cont |-> bothError, S |-> S]
        ELSE IF rp.threw THEN [cont |-> bothError, S |-> rp.S]
        ELSE IF rf.threw THEN [cont |-> bothError, S |-> rf.S]
        ELSE [cont |-> [k \in Kinds |-> IF k = "pricing" THEN rp.cont
                                        ELSE rf.cont],
              S |-> rf.S]

\* fetchData from the settling of its request, with one of the responses
\* R, to its end.
FetchDataSettle(R) ==
    /\ variant = "proxy"
    /\ \A k \in Kinds : pc[k] = "awaiting"
    /\ \E r \in R :
        /\ LET res == fetchDataAfter(Schema, r.status, r.pricing, r.faq)
           IN  /\ container' = res.cont
               /\ SetSchema(res.S)
        /\ pc' = [k \in Kinds |-> "done"]
        /\ lastResp' = [k \in Kinds |->
                          IF r.status # "ok" THEN Failure(r.status)
                          ELSE IF k = "pricing" THEN r.pricing ELSE r.faq]
        /\ UNCHANGED <<variant, envKey, domLoaded, started, requests, refreshes,
                       sentAuth, mapContainer>>
        /\ UNCHANGED notPage

\* toggleAccordion that closes every other panel when it opens one.
toggleAccordionExclusive(rows, i) ==
    IF rows[i].hidden
    THEN [j \in 1..Len(rows) |->
            IF j = i THEN [rows[j] EXCEPT !.hidden = FALSE, !.rotated = TRUE]
            ELSE [rows[j] EXCEPT !.hidden = TRUE, !.rotated = FALSE]]
    ELSE [rows EXCEPT ![i] = [@ EXCEPT !.hidden = TRUE, !.rotated = FALSE]]

\* window.toggleAccordion on the panels of the FAQ container.
toggleAccordion(rows, i) ==
    [rows EXCEPT ![i] =
        IF @.hidden
        THEN [@ EXCEPT !.hidden = FALSE, !.rotated = TRUE]
        ELSE [@ EXCEPT !.hidden = TRUE, !.rotated = FALSE]]

\* A click on the button of panel i.
ToggleAccordion(i) ==
    /\ container["faq"].kind = "rendered"
    /\ i \in 1..Len(container["faq"].rows)
    /\ container' = [container EXCEPT !["faq"].rows = toggleAccordion(@, i)]
    /\ UNCHANGED <<variant, envKey, domLoaded, pc, lastResp,
                   globalPricingData, globalFaqData, offerDoc, faqDoc,
                   started, requests, refreshes, sentAuth, mapContainer>>
    /\ UNCHANGED notPage

PricingResponses == Failures \cup Payloads(PricingSamples, MaxRecords)
FaqResponses == Failures \cup Payloads(FaqSamples, MaxFaq)


\* What the request to /api/rates can settle with.
RatesResponses(ps, fs) ==
    { [status |-> st, pricing |-> NoResp, faq |-> NoResp] :
        st \in {"neterr", "notok", "badjson"} } \cup
    { [status |-> "ok", pricing |-> p, faq |-> f] : p \in ps, f \in fs }

(***************************************************************************)
(* The publisher called on its own: updateSchema with one argument         *)
(* provided (as every caller in the source does) or with none.             *)
(***************************************************************************)
PriceItems == { [price |-> Num(1000)], [price |-> Num(1500)] }
FaqItems == { [question |-> "Pets?", answer |-> "Yes"],
              [question |-> "Question", answer |-> "Answer"] }

PricingArgs == { Provided(l) : l \in ListsUpTo(PriceItems, MaxRecords) }
FaqArgs == { Provided(l) : l \in ListsUpTo(FaqItems, MaxFaq) }

SchemaInit ==
    /\ globalPricingData = EmptySchema.gp
    /\ globalFaqData = EmptySchema.gf
    /\ offerDoc = EmptySchema.od
    /\ faqDoc = EmptySchema.fd

CallsIdle == calls = <<>> /\ argP = Absent /\ argF = Absent

\* One call updateSchema(newPricingData, newFaqData).
UpdateSchemaCall(newPricingData, newFaqData) ==
    /\ Len(calls) < MaxCalls
    /\ SetSchema(updateSchema(Schema, newPricingData, newFaqData))
    /\ calls' = Append(calls, [p |-> newPricingData.present,
                               f |-> newFaqData.present])
    /\ argP' = IF newPricingData.present THEN newPricingData ELSE argP
    /\ argF' = IF newFaqData.present THEN newFaqData ELSE argF
    /\ UNCHANGED <<pageRest, gwVars, priceVars>>

(***************************************************************************)
(* One pricing record through fetchPricing / renderPricing: its table cell *)
(* and what it contributes to the Aggregate Offer Summary.                 *)
(***************************************************************************)
PriceChars == {"$", ",", "0", "1", "2", "5", "a"}

PriceInputs ==
    {Undefined, Null} \cup { Num(x) : x \in {0, 950, 1250} }
        \cup { Str(cs) : cs \in ListsUpTo(PriceChars, MaxStrLen) }

PriceInit ==
    /\ priceIn \in PriceInputs
    /\ priceOut = Undefined
    /\ cellOut = <<>>
    /\ inSummary = FALSE
    /\ pricePc = "input"

PriceIdle ==
    /\ priceIn = Undefined
    /\ priceOut = Undefined
    /\ cellOut = <<>>
    /\ inSummary = FALSE
    /\ pricePc = "idle"

\* The record is rendered (forEach) and mapped and filtered (map, filter).
RenderRecord ==
    /\ pricePc = "input"
    /\ cellOut' = PriceCell(priceIn)
    /\ priceOut' = NormalizePrice(priceIn)
    /\ inSummary' = KeepPrice(NormalizePrice(priceIn))
    /\ pricePc' = "done"
    /\ UNCHANGED <<priceIn, pageVars, callVars, gwVars>>


(***************************************************************************)
(* The proxy gateway: handler(request, response).  One invocation per      *)
(* request.  A step is the handler up to its await of Promise.all, or the  *)
(* settling of an upstream fetch together with what the handler does when  *)
(* that settles Promise.all (the continuation runs before any other        *)
(* fetch can settle).                                                      *)
(***************************************************************************)
Methods == {"GET", "OPTIONS", "POST", "PUT", "DELETE", "HEAD"}

NoFetch == [st |-> "none", hasRecords |-> FALSE, records |-> <<>>]
Pending == [st |-> "pending", hasRecords |-> FALSE, records |-> <<>>]

\* What an upstream fetch can settle with: as for the page's requests.
UpstreamOutcomes(samples) ==
    { [st |-> x, hasRecords |-> FALSE, records |-> <<>>] :
        x \in {"neterr", "notok", "badjson", "ok"} } \cup
    { [st |-> "ok", hasRecords |-> TRUE, records |-> l] :
        l \in ListsUpTo(samples, 1) }

NoGwResp ==
    [status |-> 0, body |-> "none", error |-> "", message |-> "",
     pricing |-> <<>>, faq |-> <<>>, cors |-> FALSE]

\* response.status(s).json({error, message}) after the CORS headers.
ErrorResp(s, e, m) ==
    [status |-> s, body |-> "json", error |-> e, message |-> m,
     pricing |-> <<>>, faq |-> <<>>, cors |-> TRUE]

\* response.status(200).end()
PreflightResp ==
    [status |-> 200, body |-> "empty", error |-> "", message |-> "",
     pricing |-> <<>>, faq |-> <<>>, cors |-> TRUE]

\* response.status(200).json({pricing: ... || [], faq: ... || []})
DataResp(p, f) ==
    [status |-> 200, body |-> "json", error |-> "", message |-> "",
     pricing |-> IF p.hasRecords THEN p.records ELSE <<>>,
     faq |-> IF f.hasRecords THEN f.records ELSE <<>>, cors |-> TRUE]

GwInit ==
    /\ gwPc = "idle"
    /\ gwMethod = ""
    /\ gwKey \in BOOLEAN
    /\ up = [k \in Kinds |-> NoFetch]
    /\ gwResp = NoGwResp
    /\ gwFetches = 0
    /\ gwHandled = 0

GwIdle ==
    /\ gwPc = "idle"
    /\ gwMethod = ""
    /\ gwKey = FALSE
    /\ up = [k \in Kinds |-> NoFetch]
    /\ gwResp = NoGwResp
    /\ gwFetches = 0
    /\ gwHandled = 0

\* The handler without the check of the credential.
handlerEntryNoKeyCheck(method, key) ==
    IF method = "OPTIONS"
    THEN [pc |-> "responded", resp |-> PreflightResp, fetches |-> 0]
    ELSE IF method # "GET"
    THEN [pc |-> "responded",
          resp |-> ErrorResp(405, "Method not allowed", ""), fetches |-> 0]
    ELSE [pc |-> "awaiting", resp |-> NoGwResp, fetches |-> 2]

\* The handler without the check of the method.
handlerEntryAnyMethod(method, key) ==
    IF method = "OPTIONS"
    THEN [pc |-> "responded", resp |-> PreflightResp, fetches |-> 0]
    ELSE IF ~key
    THEN [pc |-> "responded",
          resp |-> ErrorResp(500, "Server configuration error",
                             "Airtable API key not configured"),
          fetches |-> 0]
    ELSE [pc |-> "awaiting", resp |-> NoGwResp, fetches |-> 2]

\* The handler from its entry to its first await, or to its response when
\* it sends one before.
handlerEntry(method, key) ==
    IF method = "OPTIONS"
    THEN [pc |-> "responded", resp |-> PreflightResp, fetches |-> 0]
    ELSE IF method # "GET"
    THEN [pc |-> "responded",
          resp |-> ErrorResp(405, "Method not allowed", ""), fetches |-> 0]
    ELSE IF ~key
    THEN [pc |-> "responded",
          resp |-> ErrorResp(500, "Server configuration error",
                             "Airtable API key not configured"),
          fetches |-> 0]
    ELSE [pc |-> "awaiting", resp |-> NoGwResp, fetches |-> 2]

\* A request arrives: a new invocation of the handler.
GwRequest(method) ==
    /\ gwPc \in {"idle", "responded"}
    /\ gwHandled < MaxRequests
    /\ gwHandled' = gwHandled + 1
    /\ gwMethod' = method
    /\ LET e == handlerEntry(method, gwKey)
       IN  /\ gwPc' = e.pc
           /\ gwResp' = e.resp
           /\ gwFetches' = e.fetches
           /\ up' = [k \in Kinds |-> IF e.fetches = 0 THEN NoFetch
                                     ELSE Pending]
    /\ UNCHANGED <<gwKey, pageVars, callVars, priceVars>>

\* Promise.race in place of Promise.all: settled as soon as one fetch has
\* settled.
AllSettledRace(u) ==
    \E k \in Kinds : u[k].st \notin {"pending", "none"}

\* Promise.all has settled: a fetch has rejected, or both have resolved.
AllSettled(u) ==
    \/ \E k \in Kinds : u[k].st = "neterr"
    \/ \A k \in Kinds : u[k].st \notin {"pending", "none"}

\* The handler failing only when both responses are unsuccessful
\* (!pricingResponse.ok && !faqResponse.ok); a body that cannot be read is
\* then sent as an empty list.
handlerAfterBothFail(u) ==
    IF \E k \in Kinds : u[k].st = "neterr"
    THEN ErrorResp(500, "Failed to fetch data", "fetch failed")
    ELSE IF \A k \in Kinds : u[k].st = "notok"
    THEN ErrorResp(500, "Failed to fetch data",
                   "Failed to fetch data from Airtable")
    ELSE IF \E k \in Kinds : u[k].st = "badjson"
    THEN ErrorResp(500, "Failed to fetch data", "Unexpected token")
    ELSE DataResp(u["pricing"], u["faq"])

\* The handler after Promise.all has settled, to its response.
handlerAfter(u) ==
    IF \E k \in Kinds : u[k].st = "neterr"
    THEN ErrorResp(500, "Failed to fetch data", "fetch failed")
    ELSE IF \E k \in Kinds : u[k].st = "notok"
    THEN ErrorResp(500, "Failed to fetch data",
                   "Failed to fetch data from Airtable")
    ELSE IF \E k \in Kinds : u[k].st = "badjson"
    THEN ErrorResp(500, "Failed to fetch data", "Unexpected token")
    ELSE DataResp(u["pricing"], u["faq"])

\* The upstream fetch of kind k settles with outcome o.
GwUpstreamSettle(k, o) ==
    /\ up[k].st = "pending"
    /\ up' = [up EXCEPT ![k] = o]
    /\ IF gwPc = "awaiting" /\ AllSettled(up')
       THEN gwPc' = "responded" /\ gwResp' = handlerAfter(up')
       ELSE UNCHANGED <<gwPc, gwResp>>
    /\ UNCHANGED <<gwMethod, gwKey, gwFetches, gwHandled>>
    /\ UNCHANGED <<pageVars, callVars, priceVars>>

(***************************************************************************)
(* Specifications.                                                         *)
(***************************************************************************)
PageIdle ==
    /\ variant = "direct"
    /\ envKey = FALSE
    /\ domLoaded = FALSE
    /\ pc = [k \in Kinds |-> "idle"]
    /\ container = [k \in Kinds |-> Placeholder]
    /\ lastResp = [k \in Kinds |-> NoResp]
    /\ started = [o \in Ops |-> 0]
    /\ requests = [g \in Targets |-> 0]
    /\ refreshes = 0
    /\ sentAuth = {}
    /\ mapContainer = "placeholder"

\* The page as the source runs it: each operation once, at page load.
Init == PageInit /\ CallsIdle /\ GwIdle /\ PriceIdle
Next ==
    \/ DOMContentLoaded
    \/ FetchPricingSettle(PricingResponses)
    \/ FetchFaqSettle(FaqResponses)
    \/ FetchDataSettle(RatesResponses(Payloads(PricingSamples, MaxRecords),
                                      Payloads(FaqSamples, MaxFaq)))
    \/ \E i \in 1..MaxFaq : ToggleAccordion(i)
Spec == Init /\ [][Next]_vars

\* The page with its operations started again (refreshes), over shorter
\* responses.
RefreshPricingSamples ==
    { PricingRec("", "One Bedroom", Num(1500), "Special"),
      PricingRec("Loft", "", Str(<<"a">>), "") }
RefreshFaqSamples == { FaqRec("Pets?", "Yes"), MalformedFaq }
NextRefresh ==
    \/ DOMContentLoaded
    \/ \E k \in Kinds : RefreshDirect(k)
    \/ RefreshData
    \/ FetchPricingSettle(
            Failures \cup Payloads(RefreshPricingSamples, MaxRefreshRecords))
    \/ FetchFaqSettle(
            Failures \cup Payloads(RefreshFaqSamples, MaxRefreshFaq))
    \/ FetchDataSettle(
            RatesResponses(Payloads(RefreshPricingSamples, MaxRefreshRecords),
                           Payloads(RefreshFaqSamples, MaxRefreshFaq)))
SpecRefresh == Init /\ [][NextRefresh]_vars

\* The publisher called on its own.
InitSchema == PageIdle /\ SchemaInit /\ CallsIdle /\ GwIdle /\ PriceIdle
NextSchema ==
    \/ \E a \in PricingArgs : UpdateSchemaCall(a, Absent)
    \/ \E a \in FaqArgs : UpdateSchemaCall(Absent, a)
    \/ UpdateSchemaCall(Absent, Absent)
SpecSchema == InitSchema /\ [][NextSchema]_vars

\* The gateway.
InitGw == PageIdle /\ SchemaInit /\ CallsIdle /\ GwInit /\ PriceIdle
NextGw ==
    \/ \E m \in Methods : GwRequest(m)
    \/ \E o \in UpstreamOutcomes(PricingSamples) :
            GwUpstreamSettle("pricing", o)
    \/ \E o \in UpstreamOutcomes(FaqSamples) : GwUpstreamSettle("faq", o)
SpecGw == InitGw /\ [][NextGw]_vars

\* One pricing record.
InitPrice == PageIdle /\ SchemaInit /\ CallsIdle /\ GwIdle /\ PriceInit
NextPrice == RenderRecord
SpecPrice == InitPrice /\ [][NextPrice]_vars


(***************************************************************************)
(* Properties.                                                             *)
(***************************************************************************)
\* The least and the greatest element of a non-empty set of numbers.
SetMin(X) == CHOOSE m \in X : \A x \in X : m <= x
SetMax(X) == CHOOSE m \in X : \A x \in X : m >= x

OnlyPricing == [p |-> TRUE, f |-> FALSE]
OnlyFaq == [p |-> FALSE, f |-> TRUE]

\* The Offer content the specification gives for a list of numeric prices.
OfferOf(P) ==
    LET X == { P[i].price.n : i \in 1..Len(P) }
    IN  [type |-> "Offer", priceCurrency |-> "USD",
         lowPrice |-> Num(SetMin(X)), highPrice |-> Num(SetMax(X)),
         offerCount |-> Len(P),
         availability |-> "https://schema.org/InStock"]

\* The FAQPage content c is the question/answer pairs of F, in order.
IsFaqPageOf(c, F) ==
    /\ c.type = "FAQPage"
    /\ Len(c.mainEntity) = Len(F)
    /\ \A i \in 1..Len(F) :
        /\ c.mainEntity[i].name = F[i].question
        /\ c.mainEntity[i].text = F[i].answer

\* C1: from the empty cache, updateSchema(P, absent) then
\* updateSchema(absent, F), and the same two calls in the other order, both
\* end with the Offer document present and computed from P and the FAQPage
\* document present and computed from F (P and F non-empty).
C1_OrderIndependent ==
    ( /\ calls \in { <<OnlyPricing, OnlyFaq>>, <<OnlyFaq, OnlyPricing>> }
      /\ argP.list # <<>>
      /\ argF.list # <<>> )
    => /\ offerDoc.present
       /\ offerDoc.content = OfferOf(argP.list)
       /\ faqDoc.present
       /\ IsFaqPageOf(faqDoc.content, argF.list)

C1_Witness ==
    /\ calls = <<OnlyFaq, OnlyPricing>>
    /\ Len(argP.list) >= 2
    /\ argF.list # <<>>
    /\ offerDoc.present
    /\ faqDoc.present
    /\ offerDoc.content.lowPrice # offerDoc.content.highPrice

\* The operation of kind k has finished without an error: its request
\* succeeded and no render of the operation threw.
OpSucceeded(k) ==
    /\ pc[k] = "done"
    /\ lastResp[k].status = "ok"
    /\ IF variant = "direct"
       THEN lastResp[k].hasRecords /\ ~Throws(lastResp[k].records)
       ELSE \A j \in Kinds : ~Throws(lastResp[j].records)

Doc(k) == IF k = "pricing" THEN offerDoc ELSE faqDoc

\* C2: when a fetch-and-render operation of a kind succeeds with zero
\* records, the container shows the "no data" message and the metadata
\* document of that kind is neither created nor altered.
C2_ZeroRecordsRetain ==
    [][ \A k \in Kinds :
          ( /\ pc[k] = "awaiting"
            /\ OpSucceeded(k)'
            /\ lastResp'[k].records = <<>> )
          => /\ container'[k] = NoData
             /\ Doc(k)' = Doc(k) ]_vars

C2_Witness ==
    /\ OpSucceeded("pricing")
    /\ lastResp["pricing"].records = <<>>
    /\ container["pricing"] = NoData
    /\ offerDoc.present
    /\ refreshes = 1

\* C3: a GET handled while no credential is configured is answered with
\* status 500 and error "Server configuration error", and no upstream
\* fetch is issued.
C3_NoCredential ==
    (gwHandled > 0 /\ gwMethod = "GET" /\ ~gwKey)
    => /\ gwPc = "responded"
       /\ gwResp.status = 500
       /\ gwResp.error = "Server configuration error"
       /\ gwFetches = 0
       /\ \A k \in Kinds : up[k] = NoFetch

C3_Witness ==
    /\ gwMethod = "GET" /\ ~gwKey /\ gwPc = "responded"
    /\ gwResp.status = 500

\* C4: a GET with a credential in which exactly one upstream call fails
\* (network error or non-success status) and the other succeeds is
\* answered with status 500 and error "Failed to fetch data"; a 200
\* response is sent only when both upstream calls succeeded.
C4_NoPartialSuccess ==
    (gwMethod = "GET" /\ gwKey) =>
        /\ \A k \in Kinds : \A j \in Kinds \ {k} :
              (up[k].st \in {"neterr", "notok"} /\ up[j].st = "ok")
              => /\ gwPc = "responded"
                 /\ gwResp.status = 500
                 /\ gwResp.error = "Failed to fetch data"
        /\ gwResp.status = 200 => \A k \in Kinds : up[k].st = "ok"

C4_Witness ==
    /\ gwMethod = "GET" /\ gwKey
    /\ up["pricing"].st = "notok"
    /\ up["faq"].st = "ok" /\ up["faq"].records # <<>>
    /\ gwResp.status = 500


\* The data of kind k has arrived and renders without an error.
Available(k) ==
    /\ pc[k] = "done"
    /\ lastResp[k].status = "ok"
    /\ ~Throws(lastResp[k].records)
    /\ variant = "direct" => lastResp[k].hasRecords

\* Kind k is rendered (or shows no data) and its metadata is published.
RenderedAndPublished(k) ==
    LET records == lastResp[k].records
    IN  /\ container[k].kind = IF records = <<>> THEN "nodata" ELSE "rendered"
        /\ (k = "faq" /\ records # <<>>)
            => /\ faqDoc.present
               /\ IsFaqPageOf(faqDoc.content, FaqData(records))
        /\ (k = "pricing" /\ PricingData(records) # <<>>)
            => /\ offerDoc.present
               /\ offerDoc.content = OfferSchema(PricingData(records))

\* C5 as stated: in every variant, whatever happens to the other kind, a
\* kind whose data is available ends rendered (or no-data) with its
\* metadata published.
C5_AllVariants == \A k \in Kinds : Available(k) => RenderedAndPublished(k)

\* C5, as the code behaves: in the direct-access variant a kind whose
\* data is available ends rendered (or no-data) with its metadata published, whatever
\* happens to the other kind; in the proxied variant the two kinds share
\* one request and one error handler, and either both containers show the
\* error message or neither does.
C5_DirectIndependent ==
    /\ variant = "direct"
        => \A k \in Kinds : Available(k) => RenderedAndPublished(k)
    /\ (variant = "proxy" /\ \A k \in Kinds : pc[k] = "done")
        => IF OpSucceeded("pricing")
           THEN \A k \in Kinds : container[k].kind \in {"nodata", "rendered"}
           ELSE \A k \in Kinds : container[k] = showError

C5_Witness ==
    /\ variant = "direct"
    /\ pc["pricing"] = "done"
    /\ lastResp["pricing"].status = "ok"
    /\ Throws(lastResp["pricing"].records)
    /\ container["pricing"] = showError
    /\ Available("faq")
    /\ container["faq"].kind = "rendered"
    /\ faqDoc.present

\* A price string made only of "$", "," and digits, with a digit and a
\* symbol in it.
SymbolsAroundNumber(v) ==
    /\ v.t = "str"
    /\ \A i \in 1..Len(v.s) : v.s[i] \in {"$", ","} \/ IsDigit(v.s[i])
    /\ \E i \in 1..Len(v.s) : IsDigit(v.s[i])
    /\ \E i \in 1..Len(v.s) : v.s[i] \in {"$", ","}

\* A price that is absent, or a string holding no number.
NonNumericOrAbsent(v) ==
    \/ v.t \in {"undefined", "null"}
    \/ v.t = "str" /\ ~ \E i \in 1..Len(v.s) : IsDigit(v.s[i])

\* C6: a price string with currency symbols or commas around a number
\* normalizes to that number; a record whose price is non-numeric or absent
\* is left out of the Aggregate Offer Summary and its cell shows
\* "Call for pricing".
C6_Normalization ==
    pricePc = "done" =>
        /\ SymbolsAroundNumber(priceIn)
            => /\ priceOut = Num(DigitsValue(SelectSeq(priceIn.s, IsDigit)))
               /\ inSummary
        /\ NonNumericOrAbsent(priceIn)
            => /\ ~inSummary
               /\ cellOut = CallForPricing

\* The records of a pricing result whose price normalizes to a number.
ValidIdx(records) ==
    { i \in 1..Len(records) : NormalizePrice(records[i].price).t = "num" }

\* C7: when the Offer document is published from a pricing result,
\* lowPrice is the minimum and highPrice the maximum of the prices of the
\* records whose price normalizes to a valid number, and offerCount is the
\* number of those records (so lowPrice <= highPrice and offerCount >= 1).
C7_OfferSummary ==
    LET records == lastResp["pricing"].records
        X == { NormalizePrice(records[i].price).n : i \in ValidIdx(records) }
    IN  ( /\ pc["pricing"] = "done"
          /\ lastResp["pricing"].status = "ok"
          /\ ~Throws(records)
          /\ ValidIdx(records) # {} )
        => /\ offerDoc.present
           /\ offerDoc.content.type = "Offer"
           /\ offerDoc.content.lowPrice = Num(SetMin(X))
           /\ offerDoc.content.highPrice = Num(SetMax(X))
           /\ offerDoc.content.offerCount = Cardinality(ValidIdx(records))
           /\ offerDoc.content.lowPrice.n <= offerDoc.content.highPrice.n
           /\ offerDoc.content.offerCount >= 1

C7_Witness ==
    LET records == lastResp["pricing"].records
    IN  /\ pc["pricing"] = "done"
        /\ Len(records) = 3
        /\ records[1].price = Num(1000)
        /\ records[2].price = Num(1500)
        /\ records[3].price = Num(1200)
        /\ offerDoc.present
        /\ offerDoc.content.lowPrice = Num(1000)
        /\ offerDoc.content.highPrice = Num(1500)
        /\ offerDoc.content.offerCount = 3

\* C8: a request whose method is not GET issues no upstream fetch, with or
\* without a credential: OPTIONS is answered with status 200 and an empty
\* body, every other method with status 405 "Method not allowed".
C8_NonGet ==
    (gwHandled > 0 /\ gwMethod # "GET")
    => /\ gwFetches = 0
       /\ \A k \in Kinds : up[k] = NoFetch
       /\ gwPc = "responded"
       /\ IF gwMethod = "OPTIONS"
          THEN gwResp.status = 200 /\ gwResp.body = "empty"
          ELSE /\ gwResp.status = 405
               /\ gwResp.body = "json"
               /\ gwResp.error = "Method not allowed"

C8_Witness ==
    /\ gwKey
    /\ gwMethod = "POST"
    /\ gwResp.status = 405
    /\ gwHandled = 2

\* C9: each fetch-and-render operation issues exactly one network request
\* and never another; its container shows the loading indicator for as long
\* as the request has not settled, and once it has settled the container
\* shows exactly one of error, no-data or rendered, not the loading
\* indicator.
C9_OneRequestLoadingUntilSettled ==
    /\ IF variant = "direct"
       THEN /\ \A k \in Kinds : requests[k] = started[k]
            /\ requests["rates"] = 0
       ELSE /\ requests["rates"] = started["data"]
            /\ \A k \in Kinds : requests[k] = 0
    /\ \A k \in Kinds :
        /\ pc[k] = "awaiting" => container[k] = showLoading
        /\ pc[k] = "done"
            => container[k].kind \in {"error", "nodata", "rendered"}

C9_Witness ==
    /\ variant = "direct"
    /\ pc["faq"] = "done"
    /\ lastResp["faq"].status = "neterr"
    /\ container["faq"] = showError
    /\ requests["faq"] = 1
    /\ pc["pricing"] = "awaiting"
    /\ container["pricing"] = showLoading

\* C10: toggleAccordion(id) flips the visibility of panel id only, its
\* icon rotated exactly when the panel is shown, and leaves every other
\* panel unchanged; toggling the same panel twice restores the state.
C10_ToggleOnePanel ==
    [][ LET rows == container["faq"].rows
            after == container'["faq"].rows
        IN  ( /\ container["faq"].kind = "rendered"
              /\ container'["faq"].kind = "rendered"
              /\ after # rows )
            => /\ \E i \in 1..Len(rows) :
                    /\ after = [rows EXCEPT ![i] =
                                  [@ EXCEPT !.hidden = ~rows[i].hidden,
                                            !.rotated = rows[i].hidden]]
                    /\ toggleAccordion(after, i) = rows
               /\ \A j \in 1..Len(after) :
                    after[j].rotated = ~after[j].hidden ]_vars

C10_Witness ==
    /\ container["faq"].kind = "rendered"
    /\ Len(container["faq"].rows) = 2
    /\ \A j \in 1..2 : ~container["faq"].rows[j].hidden
    /\ \A j \in 1..2 : container["faq"].rows[j].rotated

\* C11: a call of updateSchema with the pricing argument provided and the
\* FAQ argument absent leaves the cached FAQ list and the FAQPage document
\* (presence and content) unchanged; a call with only the FAQ argument
\* leaves the cached pricing list and the Offer document unchanged.
C11_UpdateSchemaFrame ==
    [][ Len(calls') = Len(calls) + 1
        => LET c == calls'[Len(calls')]
           IN  /\ c = OnlyPricing
                    => /\ globalFaqData' = globalFaqData
                       /\ faqDoc' = faqDoc
               /\ c = OnlyFaq
                    => /\ globalPricingData' = globalPricingData
                       /\ offerDoc' = offerDoc ]_vars

C11_Witness ==
    /\ calls = <<OnlyFaq, OnlyPricing>>
    /\ globalFaqData # <<>>
    /\ faqDoc.present
    /\ IsFaqPageOf(faqDoc.content, globalFaqData)
    /\ globalPricingData # <<>>
    /\ offerDoc.present

\* C12: in the direct-access variant, when the environment supplies no
\* credential, page initialization issues no upstream request, sends no
\* request authenticated with the fallback literal, and both containers
\* show the error message.
C12_NoFallbackCredential ==
    (variant = "direct" /\ ~envKey)
    => /\ "fallback" \notin sentAuth
       /\ \A k \in Kinds : requests[k] = 0
       /\ domLoaded => \A k \in Kinds : container[k] = showError

\* C13 as stated: on a GET with a configured credential both upstream
\* fetches are started before either is awaited, and the response is sent
\* only after both fetches have settled, on the success path and on every
\* failure path.
C13_RespondsAfterBothSettle ==
    (gwMethod = "GET" /\ gwKey)
    => /\ \A k \in Kinds : up[k].st # "none"
       /\ gwPc = "responded" => \A k \in Kinds : up[k].st # "pending"

\* C13, amended: both fetches are started before either is awaited; the
\* 200 response and the failure responses for a non-success status or an
\* unreadable body are sent only after both fetches have settled; when a
\* fetch rejects (network error) the 500 response is sent at once, also
\* while the other fetch is still pending.
C13_JoinUnlessRejected ==
    (gwMethod = "GET" /\ gwKey)
    => /\ gwFetches = 2
       /\ \A k \in Kinds : up[k].st # "none"
       /\ gwPc = "awaiting"
            => /\ \E k \in Kinds : up[k].st = "pending"
               /\ \A k \in Kinds : up[k].st # "neterr"
       /\ gwPc = "responded"
            => \/ \A k \in Kinds : up[k].st # "pending"
               \/ /\ \E k \in Kinds : up[k].st = "neterr"
                  /\ gwResp.status = 500
                  /\ gwResp.error = "Failed to fetch data"
       /\ gwResp.status = 200 => \A k \in Kinds : up[k].st = "ok"

C13_Witness ==
    /\ gwMethod = "GET" /\ gwKey
    /\ gwPc = "responded"
    /\ up["pricing"].st = "neterr"
    /\ up["faq"].st = "pending"
    /\ gwResp.status = 500

\* C14 as stated: after successful pricing operations, refreshes included,
\* an Offer document that is present equals the Aggregate Offer Summary
\* recomputed from the most recently fetched pricing records.
C14_OfferIsLatest ==
    LET pd == PricingData(lastResp["pricing"].records)
    IN  (OpSucceeded("pricing") /\ offerDoc.present)
        => /\ pd # <<>>
           /\ offerDoc.content = OfferSchema(pd)

\* C14, amended: after a successful pricing operation whose result has at
\* least one record with a valid price, the Offer document is present and
\* equals the Aggregate Offer Summary recomputed from that result alone;
\* a successful operation whose result has no record with a valid price
\* (no records, or none that parses) leaves the Offer document as it was,
\* so an Offer published from an earlier result stays in the page.
C14_OfferLatestUnlessEmpty ==
    [][ LET pd == PricingData(lastResp'["pricing"].records)
        IN  /\ (OpSucceeded("pricing")' /\ pd # <<>>)
                => /\ offerDoc'.present
                   /\ offerDoc'.content = OfferSchema(pd)
            /\ (pc["pricing"] = "awaiting" /\ OpSucceeded("pricing")'
                  /\ pd = <<>>)
                => offerDoc' = offerDoc ]_vars

C14_Witness ==
    LET records == lastResp["pricing"].records
    IN  /\ refreshes = 1
        /\ OpSucceeded("pricing")
        /\ Len(records) = 2
        /\ Len(PricingData(records)) = 1
        /\ offerDoc.present
        /\ offerDoc.content.offerCount = 1
        /\ globalPricingData = PricingData(records)

====
